---- MODULE Spec2Model ----
(***************************************************************************)
(* PhishTank MCP server (src/src/index.ts): the cached, rate-limited       *)
(* data-access layer behind the seven tool operations.                     *)
(*                                                                         *)
(* One step of the model is one synchronous block of the JavaScript code   *)
(* (the code between two awaits).  Times are milliseconds.  The model's    *)
(* clock origin is shifted (0 is 2024-01-01T00:00:00Z rather than the Unix *)
(* epoch) so that every timestamp fits the checker's integers; the initial *)
(* lastRequestTime 0 is, as in the code, far more than one rate-limit      *)
(* window before the first Date.now().  Timers (setTimeout) fire at or     *)
(* after the requested delay and Date.now() never runs backwards.          *)
(***************************************************************************)
EXTENDS Integers, Sequences, FiniteSets, TLC

(* ------------------------------ bounds -------------------------------- *)

\* number of tool invocations in one run
MaxCalls == 2

\* Date.now() when the first tool invocation can arrive
StartTime == 864000000

(* ------------------------- program constants -------------------------- *)

RateLimitWindow == 60000
RateLimitMaxNoKey == 10
RateLimitMaxKey == 100
CacheTimeout == 300000
MaxDatabaseAge == 3600000
MaxUrls == 50
DefaultDelay == 1000
MinDelay == 500
\* the upper end of the documented delay range (README, inputSchema)
MaxDelayDocumented == 10000
RateLimitStatus == 509

(* ----------------------------- strings -------------------------------- *)
\* A string is a sequence of one-character strings.

WhiteSpace == {" "}

Letters == {"a", "A", "h", "b"}

RECURSIVE TrimStart(_)
TrimStart(s) ==
    IF s # <<>> /\ Head(s) \in WhiteSpace THEN TrimStart(Tail(s)) ELSE s

RECURSIVE TrimEnd(_)
TrimEnd(s) ==
    IF s # <<>> /\ s[Len(s)] \in WhiteSpace
    THEN TrimEnd(SubSeq(s, 1, Len(s) - 1))
    ELSE s

\* String.prototype.trim
Trim(s) == TrimEnd(TrimStart(s))

\* new URL(url) succeeds: the string starts with a scheme, letters up to a
\* ":" (the model's URLs use a non-special scheme, which needs no host).
isValidUrl(url) ==
    \E i \in 2..Len(url) :
        /\ url[i] = ":"
        /\ \A j \in 1..(i - 1) : url[j] \in Letters

\* a key that ignores letter case
UrlCacheKeyLowered(url) ==
    <<"url_check:">> \o [i \in 1..Len(url) |-> IF url[i] = "A" THEN "a" ELSE url[i]]

\* `url_check:${url}`
UrlCacheKey(url) == <<"url_check:">> \o url

DatabaseCacheKey == <<"phishtank_database">>

LowerOf(ch) == IF ch = "A" THEN "a" ELSE ch

\* String.prototype.toLowerCase
ToLowerCase(s) == [i \in 1..Len(s) |-> LowerOf(s[i])]

Max(a, b) == IF a >= b THEN a ELSE b

(* --------------------------- tool arguments --------------------------- *)
\* An optional argument is [has |-> FALSE, v |-> ...] when the caller left it
\* out (undefined in the code).

Absent(v) == [has |-> FALSE, v |-> v]

Given(v) == [has |-> TRUE, v |-> v]

\* args?.url || '' : undefined and the empty string both give ''
UrlOrEmpty(a) == IF a.has THEN a.v ELSE <<>>

\* const delay = Math.max(args?.delay || 1000, 500)
BatchDelay(a) ==
    Max(IF a.has /\ a.v # 0 THEN a.v ELSE DefaultDelay, MinDelay)

\* Number(args?.phish_id); !phishId || phishId <= 0   (a missing id is NaN)
PhishIdRejected(a) == ~a.has \/ a.v = 0 \/ a.v <= 0

\* String(args?.target || '').trim().toLowerCase()
TargetOf(a) == ToLowerCase(Trim(UrlOrEmpty(a)))

(* ------------------------------- dates -------------------------------- *)

MsPerDay == 86400000

Digits == <<"0", "1", "2", "3", "4", "5", "6", "7", "8", "9">>

IsDigit(ch) == \E k \in 1..10 : Digits[k] = ch

DigitVal(ch) == (CHOOSE k \in 1..10 : Digits[k] = ch) - 1

\* /^\d{4}-\d{2}-\d{2}$/ .test(s)
DateRegexTest(s) ==
    /\ Len(s) = 10
    /\ s[5] = "-" /\ s[8] = "-"
    /\ \A i \in {1, 2, 3, 4, 6, 7, 9, 10} : IsDigit(s[i])

Num2(s, i) == 10 * DigitVal(s[i]) + DigitVal(s[i + 1])

\* new Date("YYYY-MM-DD"): midnight UTC of that day, or an invalid date.
\* The model's dates lie in January 2024 (day 1 is time 0).
ParseDate(s) ==
    LET month == Num2(s, 6)
        day == Num2(s, 9)
    IN  IF month >= 1 /\ month <= 12 /\ day >= 1 /\ day <= 31
        THEN [valid |-> TRUE, ms |-> (day - 1) * MsPerDay]
        ELSE [valid |-> FALSE, ms |-> 0]

\* end.setHours(23, 59, 59, 999): the last millisecond of the local calendar
\* day that holds the instant; tz is local time minus UTC.
SetHoursEndOfDay(d, tz) ==
    IF ~d.valid THEN d
    ELSE [valid |-> TRUE,
          ms |-> ((d.ms + tz) \div MsPerDay) * MsPerDay + (MsPerDay - 1) - tz]

\* start > end on Date objects: false when either is invalid (NaN)
DateAfter(a, b) == a.valid /\ b.valid /\ a.ms > b.ms

\* the argument checks of searchPhishByDate, in the code's order
DateArgsRejected(sd, ed, tz) ==
    \/ ~sd.has \/ ~ed.has
    \/ sd.v = <<>> \/ ed.v = <<>>
    \/ ~DateRegexTest(sd.v) \/ ~DateRegexTest(ed.v)
    \/ DateAfter(ParseDate(sd.v), SetHoursEndOfDay(ParseDate(ed.v), tz))

(* ------------------------------- cache -------------------------------- *)
\* node-cache with useClones: false.  The cache is a function from the stored
\* keys to [v: value, t: expiry time]; storedAt (the time of the set),
\* storedFor (the url argument of the call that stored it) and stored (the
\* value as it was when it was set) are history.

\* _check: an entry is expired when t # 0 and t < Date.now()
Expired(entry, t) == entry.t # 0 /\ entry.t < t

\* cache.get(key) returns a value
CacheHas(c, key, t) == key \in DOMAIN c /\ ~Expired(c[key], t)

\* a cache whose get renews the expiry of the entry it returns
CacheAfterGetRenewing(c, key, t) ==
    IF key \in DOMAIN c /\ Expired(c[key], t)
    THEN [k \in DOMAIN c \ {key} |-> c[k]]
    ELSE IF key \in DOMAIN c
         THEN [c EXCEPT ![key].t = t + (c[key].t - c[key].storedAt)]
    ELSE c

\* the table after cache.get(key): an expired entry is deleted on read
CacheAfterGet(c, key, t) ==
    IF key \in DOMAIN c /\ Expired(c[key], t)
    THEN [k \in DOMAIN c \ {key} |-> c[k]]
    ELSE c

\* cache.set(key, value, ttl), ttl in seconds
CacheSet(c, key, value, ttl, t, for) ==
    [k \in DOMAIN c \cup {key} |->
        IF k = key
        THEN [v |-> value, t |-> IF ttl = 0 THEN 0 ELSE t + ttl * 1000,
              storedAt |-> t, storedFor |-> for, stored |-> value]
        ELSE c[k]]

\* stdTTL: this.config.cacheTimeout / 1000
StdTTL == CacheTimeout \div 1000

\* a snapshot stored with the cache's default expiry
DatabaseTTLDefault == StdTTL

\* this.config.maxDatabaseAge / 1000
DatabaseTTL == MaxDatabaseAge \div 1000

\* _checkData (every checkperiod seconds): delete every expired entry
CacheAfterCheckData(c, t) ==
    [k \in {x \in DOMAIN c : ~Expired(c[x], t)} |-> c[k]]

(* ------------------------- upstream responses ------------------------- *)
\* The body of a 2xx answer of the check endpoint (response.data).

NotInDatabase ==
    [body |-> "json", hasResults |-> TRUE, in_database |-> FALSE,
     verified |-> FALSE, valid |-> FALSE, phish_id |-> 0]

VerifiedPhish ==
    [body |-> "json", hasResults |-> TRUE, in_database |-> TRUE,
     verified |-> TRUE, valid |-> TRUE, phish_id |-> 7]

\* a 2xx answer with an empty body: response.data is ''
EmptyBody ==
    [body |-> "empty", hasResults |-> FALSE, in_database |-> FALSE,
     verified |-> FALSE, valid |-> FALSE, phish_id |-> 0]

\* JavaScript truthiness of a response body: '' is falsy, an object is truthy
Truthy(v) == v.body # "empty"

\* getUrlCheckSummary
getUrlCheckSummary(r) ==
    IF ~r.hasResults THEN "Invalid response from PhishTank"
    ELSE IF ~r.in_database
         THEN "URL not found in PhishTank database (likely safe)"
    ELSE IF r.verified /\ r.valid THEN "PHISHING DETECTED"
    ELSE "URL found in database but not yet verified"

\* One entry of the bulk download.
Entry(id, day, verified, online, target) ==
    [phish_id |-> id, submission_time |-> (day - 1) * MsPerDay,
     verified |-> verified, online |-> online, target |-> target]

EntriesA == << Entry(1, 3, "yes", "yes", <<"A">>), Entry(2, 5, "no", "no", <<>>) >>

\* What an outbound request ends with: a 2xx answer (kind "ok"), a non-2xx
\* answer (kind "http": axios throws, error.response.status is set) or a
\* transport failure (kind "net": axios throws, no error.response).
OkAnswer(data) == [kind |-> "ok", status |-> 200, data |-> data]

\* const entries = Array.isArray(response.data) ? response.data : [];
\* return { meta: { total_entries: entries.length }, entries }
Snapshot(data) ==
    LET entries == IF data.isArray THEN data.list ELSE <<>>
    IN  [meta |-> [total_entries |-> Len(entries)], entries |-> entries]

(* ------------------------ database queries ---------------------------- *)
\* What each database-backed operation computes from the snapshot it holds.
\* database.entries is the array stored in the cache (useClones: false), so
\* each operator also gives the entry list the snapshot holds afterwards.

Min(a, b) == IF a <= b THEN a ELSE b

\* One entry of the bulk download, submitted at time ms.
EntryAt(id, ms, verified, online, target) ==
    [phish_id |-> id, submission_time |-> ms,
     verified |-> verified, online |-> online, target |-> target]

\* Math.min(Number(args?.limit || dflt), max)
LimitOf(a, dflt, max) == Min(IF a.has /\ a.v # 0 THEN a.v ELSE dflt, max)

\* Array.prototype.slice(0, end): a negative end counts from the end
SliceTo(s, end) ==
    SubSeq(s, 1, IF end < 0 THEN Max(Len(s) + end, 0) ELSE Min(end, Len(s)))

\* Array.prototype.sort((a, b) => key(b) - key(a)): stable, descending.
\* keys[i] is the key of s[i].
SortDescBy(s, keys) ==
    LET n == Len(s)
        pos(i) == 1 + Cardinality({j \in 1..n :
                          keys[j] > keys[i] \/ (keys[j] = keys[i] /\ j < i)})
    IN  [p \in 1..n |-> s[CHOOSE i \in 1..n : pos(i) = p]]

\* .sort((a, b) => new Date(b.submission_time).getTime()
\*                 - new Date(a.submission_time).getTime())
SortBySubmissionTime(s) ==
    SortDescBy(s, [i \in 1..Len(s) |-> s[i].submission_time])

\* String.prototype.includes
Includes(s, sub) ==
    \E i \in 1..(Len(s) - Len(sub) + 1) : SubSeq(s, i, i + Len(sub) - 1) = sub

\* Boolean(args?.include_offline)
IncludeOffline(a) == a.has /\ a.v

\* args?.verified_only !== false
VerifiedOnly(a) == ~(a.has /\ a.v = FALSE)

\* getRecentPhish once it holds the snapshot: filter creates a new array,
\* sort sorts the array it is called on in place
RecentPhish(database, args) ==
    LET includeOffline == IncludeOffline(args.include_offline)
        kept == IF includeOffline THEN database.entries
                ELSE SelectSeq(database.entries, LAMBDA e : e.online = "yes")
        sorted == SortBySubmissionTime(kept)
        entries == SliceTo(sorted, LimitOf(args.limit, 100, 1000))
    IN  [out |-> [total_entries |-> database.meta.total_entries,
                  filtered_entries |-> Len(entries),
                  include_offline |-> includeOffline,
                  entries |-> entries],
         entries |-> IF includeOffline THEN sorted ELSE database.entries]

\* searchPhishByTarget once it holds the snapshot
PhishByTarget(database, args) ==
    LET target == TargetOf(args.target)
        verifiedOnly == VerifiedOnly(args.verified_only)
        kept == SelectSeq(database.entries,
                    LAMBDA e : /\ e.target # <<>>
                               /\ Includes(ToLowerCase(e.target), target)
                               /\ (~verifiedOnly \/ e.verified = "yes"))
        entries == SliceTo(SortBySubmissionTime(kept),
                           LimitOf(args.limit, 50, 500))
    IN  [out |-> [search_target |-> target, verified_only |-> verifiedOnly,
                  matches_found |-> Len(entries), entries |-> entries],
         entries |-> database.entries]

\* getPhishDetails once it holds the snapshot
PhishDetails(database, args) ==
    LET phishId == args.phish_id.v
        found == {i \in 1..Len(database.entries) :
                     database.entries[i].phish_id = phishId}
    IN  [out |-> IF found = {} THEN [phish_id |-> phishId, found |-> FALSE]
                 ELSE [phish_id |-> phishId, found |-> TRUE,
                       details |-> database.entries[
                           CHOOSE i \in found : \A j \in found : i <= j]],
         entries |-> database.entries]

\* Math.min(Math.max(Number(args?.days || 7), 1), 30)
StatsDays(a) == Min(Max(IF a.has /\ a.v # 0 THEN a.v ELSE 7, 1), 30)

\* targetCounts: a Map keeps its keys in the order of their first insertion;
\* entries without a target are skipped
TargetCounts(recentEntries) ==
    LET n == Len(recentEntries)
        tgt(i) == recentEntries[i].target
        firsts == SelectSeq([i \in 1..n |-> i],
                      LAMBDA i : /\ tgt(i) # <<>>
                                 /\ \A j \in 1..(i - 1) : tgt(j) # tgt(i))
    IN  [k \in 1..Len(firsts) |->
            [target |-> tgt(firsts[k]),
             count |-> Cardinality({j \in 1..n : tgt(j) = tgt(firsts[k])})]]

\* Array.from(targetCounts.entries()).sort((a, b) => b[1] - a[1])
\*     .slice(0, topTargetsLimit)
TopTargets(recentEntries, topTargetsLimit) ==
    LET counts == TargetCounts(recentEntries)
    IN  SliceTo(SortDescBy(counts, [k \in 1..Len(counts) |-> counts[k].count]),
                topTargetsLimit)

\* cutoffDate = now minus days calendar days (setDate(getDate() - days));
\* new Date(entry.submission_time) >= cutoffDate.  A day is taken to have
\* MsPerDay milliseconds, and the comparison ms >= t - days * MsPerDay is
\* computed on the entry's age so that no intermediate value leaves the
\* integers of the model checker.
InStatsWindow(ms, t, days) ==
    LET age == t - ms
    IN  \/ age <= 0
        \/ age \div MsPerDay < days
        \/ (age \div MsPerDay = days /\ age % MsPerDay = 0)

\* getPhishStats once it holds the snapshot, at time t
PhishStats(database, args, t) ==
    LET days == StatsDays(args.days)
        topTargetsLimit == LimitOf(args.top_targets_limit, 10, 50)
        recentEntries == SelectSeq(database.entries,
                             LAMBDA e : InStatsWindow(e.submission_time, t, days))
    IN  [out |-> [total_phish |-> Len(recentEntries),
                  total_verified |->
                      Len(SelectSeq(recentEntries, LAMBDA e : e.verified = "yes")),
                  total_online |->
                      Len(SelectSeq(recentEntries, LAMBDA e : e.online = "yes")),
                  top_targets |-> TopTargets(recentEntries, topTargetsLimit),
                  recent_submissions |-> Len(recentEntries),
                  analysis_period_days |-> days],
         entries |-> database.entries]

\* submissionDate >= start && submissionDate <= end  (false for an invalid date)
InDateRange(ms, start, end) ==
    /\ start.valid /\ end.valid
    /\ ms >= start.ms /\ ms <= end.ms

\* searchPhishByDate once it holds the snapshot; tz is local time minus UTC
PhishByDate(database, args, tz) ==
    LET start == ParseDate(args.start_date.v)
        end == SetHoursEndOfDay(ParseDate(args.end_date.v), tz)
        kept == SelectSeq(database.entries,
                    LAMBDA e : InDateRange(e.submission_time, start, end))
        entries == SliceTo(SortBySubmissionTime(kept),
                           LimitOf(args.limit, 100, 500))
    IN  [out |-> [date_range |-> [start |-> args.start_date.v,
                                  end |-> args.end_date.v],
                  matches_found |-> Len(entries), entries |-> entries],
         entries |-> database.entries]

\* the tool method's computation on the snapshot it holds
Query(tool, database, args, t, tz) ==
    IF tool = "get_recent_phish" THEN RecentPhish(database, args)
    ELSE IF tool = "search_phish_by_target" THEN PhishByTarget(database, args)
    ELSE IF tool = "get_phish_details" THEN PhishDetails(database, args)
    ELSE IF tool = "get_phish_stats" THEN PhishStats(database, args, t)
    ELSE PhishByDate(database, args, tz)

(* ---------------------------- input sets ------------------------------ *)

UrlLower == <<"h", ":", "a">>
UrlUpper == <<"h", ":", "A">>
UrlPadded == <<" ", "h", ":", "a">>
UrlNoScheme == <<"h", "a">>

UrlArgs == {Given(UrlLower), Given(UrlUpper), Given(UrlPadded),
            Given(UrlNoScheme), Given(<<>>), Absent(<<>>)}

\* the arguments of check_multiple_urls: a list of URLs and a delay
BatchArgs ==
    {[urls |-> <<>>, delay |-> Absent(0)],
     [urls |-> [k \in 1..(MaxUrls + 1) |-> UrlLower], delay |-> Absent(0)],
     [urls |-> <<UrlLower>>, delay |-> Absent(0)],
     [urls |-> <<UrlLower>>, delay |-> Given(0)],
     [urls |-> <<UrlLower>>, delay |-> Given(-5)],
     [urls |-> <<UrlLower>>, delay |-> Given(700)],
     [urls |-> <<UrlNoScheme, UrlLower, UrlPadded>>, delay |-> Given(100)],
     [urls |-> <<UrlLower, UrlLower>>, delay |-> Given(300000)]}

PhishIdArgs == {Absent(0), Given(0), Given(-1), Given(1), Given(9)}

TargetArgs == {Absent(<<>>), Given(<<" ">>), Given(<<"A">>)}

\* the arguments of get_recent_phish
RecentArgs ==
    {[limit |-> Absent(0), include_offline |-> Absent(FALSE)],
     [limit |-> Given(1), include_offline |-> Given(TRUE)]}

\* the arguments of get_phish_stats
StatsArgs == {[days |-> Absent(0), top_targets_limit |-> Absent(0)]}

DateGood == <<"2", "0", "2", "4", "-", "0", "1", "-", "0", "3">>
DateLater == <<"2", "0", "2", "4", "-", "0", "1", "-", "0", "5">>
DateShort == <<"2", "0", "2", "4", "-", "1", "-", "1">>

DateArgs == {Absent(<<>>), Given(DateShort), Given(DateGood), Given(DateLater)}

\* time that passes between two tool invocations
IdleTimes == {100, 300001, 3600000, 3600001}

\* How a POST to the check endpoint can end: the time it takes (lat, at most
\* the 30000 ms axios timeout) and the answer.
PostEndings ==
    {[lat |-> 30, ans |-> OkAnswer(VerifiedPhish)],
     [lat |-> 700, ans |-> OkAnswer(NotInDatabase)],
     [lat |-> 30, ans |-> OkAnswer(EmptyBody)],
     [lat |-> 30, ans |-> [kind |-> "http", status |-> RateLimitStatus]],
     [lat |-> 700, ans |-> [kind |-> "http", status |-> 500]],
     [lat |-> 30, ans |-> [kind |-> "net", status |-> 0]]}

\* How the bulk download can end.
GetEndings ==
    {[lat |-> 700, ans |-> OkAnswer([isArray |-> TRUE, list |-> EntriesA])],
     [lat |-> 30, ans |-> OkAnswer([isArray |-> FALSE, list |-> <<>>])],
     [lat |-> 30, ans |-> [kind |-> "http", status |-> RateLimitStatus]],
     [lat |-> 700, ans |-> [kind |-> "http", status |-> 500]],
     [lat |-> 30, ans |-> [kind |-> "net", status |-> 0]]}

\* The process and its host: PHISHTANK_API_KEY set or not, the time zone
\* (local time minus UTC, ms), and how late the host's timers fire (lag: a
\* setTimeout callback runs at or after the requested time).
Envs == {[apiKey |-> FALSE, tz |-> 0, lag |-> 0],
         [apiKey |-> FALSE, tz |-> 0, lag |-> 3],
         [apiKey |-> TRUE, tz |-> -18000000, lag |-> 0],
         [apiKey |-> TRUE, tz |-> -18000000, lag |-> 3]}

(* ------------------------------- state -------------------------------- *)

VARIABLES
    env,              \* the process's environment, fixed at start
    now,              \* Date.now()
    cache,            \* this.cache
    lastRequestTime,  \* this.lastRequestTime
    calls,            \* the tool invocations, in order of arrival
    nCalls,           \* how many have arrived
    idled,            \* time has passed since the last arrival (history)
    permits           \* every value written to lastRequestTime (history)

vars == <<env, now, cache, lastRequestTime, calls, nCalls, idled, permits>>

\* rateLimitMax: process.env.PHISHTANK_API_KEY ? 100 : 10
RateLimitMax(e) == IF e.apiKey THEN RateLimitMaxKey ELSE RateLimitMaxNoKey

\* const minInterval = 60000 / this.config.rateLimitMax
MinInterval(e) == RateLimitWindow \div RateLimitMax(e)

\* if (timeSinceLastRequest < minInterval)
NeedsWait(t, last, minInterval) == t - last < minInterval

\* a wrong wait: the time since the last request instead of the remainder
WaitTimeElapsed(t, last, minInterval) == t - last

\* const waitTime = minInterval - timeSinceLastRequest
WaitTime(t, last, minInterval) == minInterval - (t - last)

\* The checkUrl call a tool invocation is in.  fin: "pending" while it is
\* suspended, "return" or "throw" once it has ended.  startedAt, finishedAt,
\* posts, sets (cache writes), hitAge (age of the entry a cache hit served),
\* hitFrom (the url argument that entry was stored for), sawExpired (the
\* lookup found the entry expired) and answer (how its POST ended) are history.
NoItem ==
    [arg |-> Absent(<<>>), fin |-> "none", kind |-> "none", status |-> 0,
     payload |-> <<>>, startedAt |-> 0, finishedAt |-> 0, posts |-> 0,
     sets |-> 0, hitAge |-> -1, hitFrom |-> <<>>, sawExpired |-> FALSE,
     answer |-> "none"]

\* One tool invocation.  pc is the await it is suspended at: "throttle" (the
\* setTimeout of enforceRateLimit), "post", "pace" (the setTimeout between
\* batch items), "get" (the bulk download), or "idle" / "done".  The counters,
\* began, ended, hitAge, sawExpired, served (the snapshot the operation read)
\* and getAnswer (how its bulk download ended) are history.
NoCall ==
    [tool |-> "none", args |-> <<>>, pc |-> "idle", cur |-> NoItem,
     idx |-> 0, delay |-> 0, results |-> <<>>, outcome |-> "none",
     out |-> <<>>, wake |-> 0,
     posts |-> 0, gets |-> 0, waits |-> 0, paces |-> 0, cacheOps |-> 0,
     sets |-> 0,
     began |-> 0, ended |-> 0, hitAge |-> -1, sawExpired |-> FALSE,
     served |-> <<>>, getAnswer |-> "none"]

\* the shared state and one invocation, as the code of a step sees them
Machine(i) ==
    [cache |-> cache, last |-> lastRequestTime, permits |-> permits,
     c |-> calls[i]]

Arrive(m, t, tool, args) ==
    [m EXCEPT !.c = [NoCall EXCEPT !.tool = tool, !.args = args, !.began = t]]

(* ------------------------- the request handler ------------------------ *)

\* The handler's answer: a result, a tool error result (isError) from the
\* catch block, or the McpError thrown on (a protocol error).
Respond(m, t, outcome, out) ==
    [m EXCEPT !.c.pc = "done", !.c.outcome = outcome, !.c.out = out,
              !.c.ended = t]

\* throw new McpError(ErrorCode.InvalidParams, ...) out of a tool method
RejectArgs(m, t) == Respond(m, t, "McpError", [code |-> "InvalidParams"])

\* catch (error): an axios error becomes a tool error result
AxiosErrorResult(status) ==
    [isError |-> TRUE,
     text |-> IF status = RateLimitStatus THEN "Rate limit exceeded"
              ELSE "PhishTank API error",
     status |-> status]

(* ------------------------------ checkUrl ------------------------------- *)

Throw(m, t, kind, status) ==
    [m EXCEPT !.c.cur.fin = "throw", !.c.cur.kind = kind,
              !.c.cur.status = status, !.c.cur.finishedAt = t]

Return(m, t, kind, payload) ==
    [m EXCEPT !.c.cur.fin = "return", !.c.cur.kind = kind,
              !.c.cur.payload = payload, !.c.cur.finishedAt = t]

\* a cache-hit response without the marker
CachedPayloadUnmarked(v) ==
    [result |-> v, summary |-> getUrlCheckSummary(v)]

\* JSON.stringify({ cached: true, result: cached, summary })
CachedPayload(v) ==
    [cached |-> TRUE, result |-> v, summary |-> getUrlCheckSummary(v)]

\* JSON.stringify({ result, rate_limit_info, summary })
FetchedPayload(v) ==
    [result |-> v, summary |-> getUrlCheckSummary(v)]

\* this.lastRequestTime = Date.now(), then this.axiosInstance.post(...)
IssuePost(m, t) ==
    [m EXCEPT !.last = t, !.permits = Append(@, t), !.c.pc = "post",
              !.c.posts = @ + 1, !.c.cur.posts = @ + 1]

\* enforceRateLimit up to its await, and the POST when it does not wait
EnforceRateLimitEnter(m, t) ==
    IF NeedsWait(t, m.last, MinInterval(env))
    THEN [m EXCEPT !.c.pc = "throttle",
                   !.c.wake = t + WaitTime(t, m.last, MinInterval(env)),
                   !.c.waits = @ + 1]
    ELSE IssuePost(m, t)

\* checkUrl from its start to its first await (or its end)
CheckUrlEnter(m, t, a) ==
    LET url == Trim(UrlOrEmpty(a))
        key == UrlCacheKey(url)
        m0 == [m EXCEPT !.c.cur = [NoItem EXCEPT !.arg = a, !.fin = "pending",
                                                 !.startedAt = t]]
        hit == CacheHas(m.cache, key, t)
        m1 == [m0 EXCEPT !.cache = CacheAfterGet(m.cache, key, t),
                         !.c.cacheOps = @ + 1,
                         !.c.cur.sawExpired = (key \in DOMAIN m.cache /\ ~hit)]
    IN  IF url = <<>> THEN Throw(m0, t, "InvalidParams", 0)
        ELSE IF ~isValidUrl(url) THEN Throw(m0, t, "InvalidParams", 0)
        ELSE IF hit /\ Truthy(m.cache[key].v)
             THEN Return([m1 EXCEPT !.c.cur.hitAge = t - m.cache[key].storedAt,
                                    !.c.cur.hitFrom = m.cache[key].storedFor],
                         t, "cached", CachedPayload(m.cache[key].v))
        ELSE EnforceRateLimitEnter(m1, t)

\* a checkUrl that sends the request again when the upstream says 509
CheckUrlAnsweredRetrying(m, t, ans) ==
    LET key == UrlCacheKey(Trim(UrlOrEmpty(m.c.cur.arg)))
    IN  IF ans.kind = "ok"
        THEN Return([m EXCEPT !.cache = CacheSet(m.cache, key, ans.data, StdTTL,
                                                 t, UrlOrEmpty(m.c.cur.arg)),
                              !.c.cacheOps = @ + 1, !.c.sets = @ + 1,
                              !.c.cur.sets = @ + 1],
                    t, "fetched", FetchedPayload(ans.data))
        ELSE IF ans.status = RateLimitStatus /\ m.c.cur.posts < 2
             THEN [m EXCEPT !.c.posts = @ + 1, !.c.cur.posts = @ + 1]
        ELSE Throw(m, t, "axios", ans.status)

\* a checkUrl that returns the result without storing it
CheckUrlAnsweredNoStore(m, t, ans) ==
    IF ans.kind = "ok"
    THEN Return(m, t, "fetched", FetchedPayload(ans.data))
    ELSE Throw(m, t, "axios", ans.status)

\* checkUrl after the POST has ended with answer ans
CheckUrlAnswered(m, t, ans) ==
    LET key == UrlCacheKey(Trim(UrlOrEmpty(m.c.cur.arg)))
    IN  IF ans.kind = "ok"
        THEN Return([m EXCEPT !.cache = CacheSet(m.cache, key, ans.data, StdTTL,
                                                 t, UrlOrEmpty(m.c.cur.arg)),
                              !.c.cacheOps = @ + 1, !.c.sets = @ + 1,
                              !.c.cur.sets = @ + 1],
                    t, "fetched", FetchedPayload(ans.data))
        ELSE Throw(m, t, "axios", ans.status)

\* the handler around a check_url tool call
CheckUrlHandled(m, t) ==
    LET cur == m.c.cur
    IN  IF cur.fin = "return" THEN Respond(m, t, "ok", cur.payload)
        ELSE IF cur.kind = "axios"
             THEN Respond(m, t, "isError", AxiosErrorResult(cur.status))
        ELSE RejectArgs(m, t)

(* -------------------------- checkMultipleUrls ------------------------- *)

\* results.push({ url, success, data | error }); the rest is history
BatchItem(cur) ==
    [url |-> cur.arg.v, arg |-> cur.arg, success |-> (cur.fin = "return"),
     data |-> cur.payload,
     error |-> IF cur.fin = "return" THEN "none" ELSE cur.kind,
     startedAt |-> cur.startedAt, finishedAt |-> cur.finishedAt,
     posts |-> cur.posts, sets |-> cur.sets, status |-> cur.status,
     kind |-> cur.kind, hitAge |-> cur.hitAge, hitFrom |-> cur.hitFrom,
     sawExpired |-> cur.sawExpired, answer |-> cur.answer]

CountSuccess(results) ==
    Cardinality({k \in 1..Len(results) : results[k].success})

\* a loop that gives up at the first URL that fails
BatchAbortingOnFailure(m, t) ==
    LET results == Append(m.c.results, BatchItem(m.c.cur))
        processedCount == m.c.idx + 1
        urls == m.c.args.urls
        m1 == [m EXCEPT !.c.results = results, !.c.idx = processedCount]
        summary == [batch_results |-> results,
                    summary |-> [total |-> Len(urls),
                                 successful |-> CountSuccess(results),
                                 failed |-> Len(results) - CountSuccess(results),
                                 delay_used |-> m.c.delay]]
    IN  IF m.c.cur.fin = "throw" THEN Respond(m1, t, "ok", summary)
        ELSE IF processedCount < Len(urls)
        THEN [m1 EXCEPT !.c.pc = "pace", !.c.wake = t + m.c.delay,
                        !.c.paces = @ + 1]
        ELSE Respond(m1, t, "ok", summary)

\* a loop that paces only after a URL that went to the upstream
BatchPacingAfterRequestsOnly(m, t) ==
    LET results == Append(m.c.results, BatchItem(m.c.cur))
        processedCount == m.c.idx + 1
        urls == m.c.args.urls
        m1 == [m EXCEPT !.c.results = results, !.c.idx = processedCount]
    IN  IF processedCount < Len(urls)
        THEN [m1 EXCEPT !.c.pc = "pace",
                        !.c.wake = t + (IF m.c.cur.posts > 0 THEN m.c.delay ELSE 0),
                        !.c.paces = @ + (IF m.c.cur.posts > 0 THEN 1 ELSE 0)]
        ELSE Respond(m1, t, "ok",
                 [batch_results |-> results,
                  summary |-> [total |-> Len(urls),
                               successful |-> CountSuccess(results),
                               failed |-> Len(results) - CountSuccess(results),
                               delay_used |-> m.c.delay]])

\* the loop body after checkUrl has ended: push, count, then pace or finish
BatchAfterItem(m, t) ==
    LET results == Append(m.c.results, BatchItem(m.c.cur))
        processedCount == m.c.idx + 1
        urls == m.c.args.urls
        m1 == [m EXCEPT !.c.results = results, !.c.idx = processedCount]
    IN  IF processedCount < Len(urls)
        THEN [m1 EXCEPT !.c.pc = "pace", !.c.wake = t + m.c.delay,
                        !.c.paces = @ + 1]
        ELSE Respond(m1, t, "ok",
                 [batch_results |-> results,
                  summary |-> [total |-> Len(urls),
                               successful |-> CountSuccess(results),
                               failed |-> Len(results) - CountSuccess(results),
                               delay_used |-> m.c.delay]])

\* what follows the end of a checkUrl call, in its caller
Settle(m, t) ==
    IF m.c.cur.fin \notin {"return", "throw"} THEN m
    ELSE IF m.c.tool = "check_url" THEN CheckUrlHandled(m, t)
    ELSE BatchAfterItem(m, t)

\* checkMultipleUrls from its start to its first await (or its end)
CheckMultipleUrlsEnter(m, t, urls, d) ==
    LET m0 == [m EXCEPT !.c.delay = BatchDelay(d)]
    IN  IF Len(urls) = 0 THEN RejectArgs(m0, t)
        ELSE IF Len(urls) > MaxUrls THEN RejectArgs(m0, t)
        ELSE Settle(CheckUrlEnter(m0, t, Given(urls[1])), t)

(* ---------------------- database-backed operations -------------------- *)

DatabaseTools ==
    {"get_recent_phish", "search_phish_by_target", "get_phish_details",
     "get_phish_stats", "search_phish_by_date"}

\* The operation's answer once it holds the snapshot.  database is the very
\* object the cache holds under the key (useClones: false): what the query
\* does to its entry list, it does to the cached snapshot.
DatabaseServed(m, t, database) ==
    LET q == Query(m.c.tool, database, m.c.args, t, env.tz)
        key == DatabaseCacheKey
    IN  Respond([m EXCEPT !.c.served = database,
                          !.cache = IF key \in DOMAIN m.cache
                                    THEN [m.cache EXCEPT ![key].v.entries = q.entries]
                                    ELSE m.cache],
                t, "ok", q.out)

\* a lookup whose download takes a permit of the throttle
DatabaseEnterThrottled(m, t) ==
    LET key == DatabaseCacheKey
        hit == CacheHas(m.cache, key, t)
        m1 == [m EXCEPT !.cache = CacheAfterGet(m.cache, key, t),
                        !.c.cacheOps = @ + 1,
                        !.c.sawExpired = (key \in DOMAIN m.cache /\ ~hit)]
    IN  IF hit
        THEN DatabaseServed([m1 EXCEPT !.c.hitAge = t - m.cache[key].storedAt],
                            t, m.cache[key].v)
        ELSE [m1 EXCEPT !.c.pc = "get", !.c.gets = @ + 1, !.last = t]

\* let database = this.cache.get(cacheKey); if (!database) download
DatabaseEnter(m, t) ==
    LET key == DatabaseCacheKey
        hit == CacheHas(m.cache, key, t)
        m1 == [m EXCEPT !.cache = CacheAfterGet(m.cache, key, t),
                        !.c.cacheOps = @ + 1,
                        !.c.sawExpired = (key \in DOMAIN m.cache /\ ~hit)]
    IN  IF hit
        THEN DatabaseServed([m1 EXCEPT !.c.hitAge = t - m.cache[key].storedAt],
                            t, m.cache[key].v)
        ELSE [m1 EXCEPT !.c.pc = "get", !.c.gets = @ + 1]

\* a download that falls back to an empty snapshot when the request fails
DatabaseAnsweredWithFallback(m, t, ans) ==
    LET database == IF ans.kind = "ok" THEN Snapshot(ans.data)
                    ELSE Snapshot([isArray |-> FALSE, list |-> <<>>])
    IN  DatabaseServed(
            [m EXCEPT !.cache = CacheSet(m.cache, DatabaseCacheKey, database,
                                         DatabaseTTL, t, <<>>),
                      !.c.cacheOps = @ + 1, !.c.sets = @ + 1],
            t, database)

\* downloadDatabase has ended with answer ans; on success
\* this.cache.set(cacheKey, database, this.config.maxDatabaseAge / 1000)
DatabaseAnswered(m, t, ans) ==
    IF ans.kind = "ok"
    THEN DatabaseServed(
             [m EXCEPT !.cache = CacheSet(m.cache, DatabaseCacheKey,
                                          Snapshot(ans.data), DatabaseTTL, t,
                                          <<>>),
                       !.c.cacheOps = @ + 1, !.c.sets = @ + 1],
             t, Snapshot(ans.data))
    ELSE Respond(m, t, "isError", AxiosErrorResult(ans.status))

GetRecentPhishEnter(m, t) == DatabaseEnter(m, t)

SearchPhishByTargetEnter(m, t, target) ==
    IF TargetOf(target) = <<>> THEN RejectArgs(m, t) ELSE DatabaseEnter(m, t)

GetPhishDetailsEnter(m, t, id) ==
    IF PhishIdRejected(id) THEN RejectArgs(m, t) ELSE DatabaseEnter(m, t)

GetPhishStatsEnter(m, t) == DatabaseEnter(m, t)

\* a searchPhishByDate that fetches the snapshot before it checks its dates
SearchPhishByDateLookupFirst(m, t, sd, ed) ==
    IF DateArgsRejected(sd, ed, env.tz) THEN RejectArgs(DatabaseEnter(m, t), t)
    ELSE DatabaseEnter(m, t)

SearchPhishByDateEnter(m, t, sd, ed) ==
    IF DateArgsRejected(sd, ed, env.tz) THEN RejectArgs(m, t)
    ELSE DatabaseEnter(m, t)

(* ------------------------------ actions ------------------------------- *)

Init ==
    /\ env \in Envs
    /\ now = StartTime
    /\ cache = <<>>
    /\ lastRequestTime = 0
    /\ calls = [i \in 1..MaxCalls |-> NoCall]
    /\ nCalls = 0
    /\ idled = FALSE
    /\ permits = <<>>

\* Tool invocations arrive one after another: the client awaits each answer.
CanArrive(i) ==
    /\ i = nCalls + 1
    /\ i <= MaxCalls
    /\ \A j \in 1..nCalls : calls[j].pc = "done"

Commit(i, m) ==
    /\ cache' = m.cache
    /\ lastRequestTime' = m.last
    /\ permits' = m.permits
    /\ calls' = [calls EXCEPT ![i] = m.c]

Arrived(i, m) ==
    /\ Commit(i, m)
    /\ nCalls' = i
    /\ idled' = FALSE
    /\ UNCHANGED <<env, now>>

CallCheckUrl(i) ==
    /\ CanArrive(i)
    /\ \E a \in UrlArgs :
          LET m == Arrive(Machine(i), now, "check_url", [url |-> a])
          IN  Arrived(i, Settle(CheckUrlEnter(m, now, a), now))

CallCheckMultipleUrls(i) ==
    /\ CanArrive(i)
    /\ \E a \in BatchArgs :
          LET m == Arrive(Machine(i), now, "check_multiple_urls", a)
          IN  Arrived(i, CheckMultipleUrlsEnter(m, now, a.urls, a.delay))

CallGetRecentPhish(i) ==
    /\ CanArrive(i)
    /\ \E a \in RecentArgs :
          LET m == Arrive(Machine(i), now, "get_recent_phish", a)
          IN  Arrived(i, GetRecentPhishEnter(m, now))

CallSearchPhishByTarget(i) ==
    /\ CanArrive(i)
    /\ \E target \in TargetArgs :
          LET m == Arrive(Machine(i), now, "search_phish_by_target",
                          [target |-> target, limit |-> Absent(0),
                           verified_only |-> Absent(TRUE)])
          IN  Arrived(i, SearchPhishByTargetEnter(m, now, target))

CallGetPhishDetails(i) ==
    /\ CanArrive(i)
    /\ \E id \in PhishIdArgs :
          LET m == Arrive(Machine(i), now, "get_phish_details",
                          [phish_id |-> id])
          IN  Arrived(i, GetPhishDetailsEnter(m, now, id))

CallGetPhishStats(i) ==
    /\ CanArrive(i)
    /\ \E a \in StatsArgs :
          LET m == Arrive(Machine(i), now, "get_phish_stats", a)
          IN  Arrived(i, GetPhishStatsEnter(m, now))

CallSearchPhishByDate(i) ==
    /\ CanArrive(i)
    /\ \E sd \in DateArgs, ed \in DateArgs :
          LET m == Arrive(Machine(i), now, "search_phish_by_date",
                          [start_date |-> sd, end_date |-> ed,
                           limit |-> Absent(0)])
          IN  Arrived(i, SearchPhishByDateEnter(m, now, sd, ed))

\* the setTimeout of enforceRateLimit fires: record the time, issue the POST
ThrottleWakes(i) ==
    /\ calls[i].pc = "throttle"
    /\ now' = Max(now, calls[i].wake + env.lag)
    /\ Commit(i, IssuePost(Machine(i), now'))
    /\ UNCHANGED <<env, nCalls, idled>>

\* the POST ends, with some answer, after some time
PostEnds(i) ==
    /\ calls[i].pc = "post"
    /\ \E e \in PostEndings :
          /\ now' = now + e.lat
          /\ Commit(i, Settle(CheckUrlAnswered(
                   [Machine(i) EXCEPT !.c.cur.answer = e.ans.kind],
                   now', e.ans), now'))
    /\ UNCHANGED <<env, nCalls, idled>>

\* the setTimeout between two batch items fires: the next checkUrl starts
PaceWakes(i) ==
    /\ calls[i].pc = "pace"
    /\ now' = Max(now, calls[i].wake + env.lag)
    /\ Commit(i, Settle(CheckUrlEnter(Machine(i), now',
                   Given(calls[i].args.urls[calls[i].idx + 1])), now'))
    /\ UNCHANGED <<env, nCalls, idled>>

\* the bulk download ends
GetEnds(i) ==
    /\ calls[i].pc = "get"
    /\ \E e \in GetEndings :
          /\ now' = now + e.lat
          /\ Commit(i, [DatabaseAnswered(Machine(i), now', e.ans)
                           EXCEPT !.c.getAnswer = e.ans.kind])
    /\ UNCHANGED <<env, nCalls, idled>>

\* node-cache's periodic _checkData
CheckData ==
    /\ \E k \in DOMAIN cache : Expired(cache[k], now)
    /\ cache' = CacheAfterCheckData(cache, now)
    /\ UNCHANGED <<env, now, lastRequestTime, calls, nCalls, idled, permits>>

\* time passes while no invocation is in progress
Idle ==
    /\ ~idled
    /\ nCalls > 0
    /\ nCalls < MaxCalls
    /\ \A j \in 1..nCalls : calls[j].pc = "done"
    /\ \E d \in IdleTimes : now' = now + d
    /\ idled' = TRUE
    /\ UNCHANGED <<env, cache, lastRequestTime, calls, nCalls, permits>>

Next ==
    \/ \E i \in 1..MaxCalls :
          \/ CallCheckUrl(i)
          \/ CallCheckMultipleUrls(i)
          \/ CallGetRecentPhish(i)
          \/ CallSearchPhishByTarget(i)
          \/ CallGetPhishDetails(i)
          \/ CallGetPhishStats(i)
          \/ CallSearchPhishByDate(i)
          \/ ThrottleWakes(i)
          \/ PostEnds(i)
          \/ PaceWakes(i)
          \/ GetEnds(i)
    \/ CheckData
    \/ Idle

Spec == Init /\ [][Next]_vars

(* ----------------- the database queries on wider inputs --------------- *)
\* A second specification: the same tool methods, called one after another
\* on larger snapshots and with more argument values, in more time zones.

\* in-window targets A, A, B, C, C, C and one entry without a target (the
\* first invocation is served on day 11); three older entries with target B
EntriesTargets ==
    << Entry(11, 9, "yes", "yes", <<"A">>), Entry(12, 6, "yes", "no", <<"A">>),
       Entry(13, 7, "no", "yes", <<"B">>), Entry(14, 5, "yes", "yes", <<"C">>),
       Entry(15, 10, "yes", "yes", <<"C">>), Entry(16, 8, "no", "no", <<"C">>),
       Entry(17, 7, "yes", "yes", <<>>), Entry(18, 2, "yes", "yes", <<"B">>),
       Entry(19, 2, "yes", "yes", <<"B">>), Entry(20, 2, "yes", "yes", <<"B">>) >>

\* entries around 2024-01-03 (UTC): the last millisecond of the day before,
\* the first millisecond, noon and the last millisecond of the day, and the
\* first millisecond of the day after
EntriesDay ==
    << EntryAt(21, 2 * MsPerDay - 1, "yes", "yes", <<"A">>),
       EntryAt(22, 2 * MsPerDay, "yes", "yes", <<"A">>),
       EntryAt(23, 2 * MsPerDay + 43200000, "yes", "no", <<"a", "b">>),
       EntryAt(24, 3 * MsPerDay - 1, "no", "yes", <<"B">>),
       EntryAt(25, 3 * MsPerDay, "yes", "yes", <<"A">>) >>

QueryEndings ==
    {[lat |-> 30, ans |-> OkAnswer([isArray |-> TRUE, list |-> EntriesA])],
     [lat |-> 30, ans |-> OkAnswer([isArray |-> TRUE, list |-> EntriesTargets])],
     [lat |-> 30, ans |-> OkAnswer([isArray |-> TRUE, list |-> EntriesDay])],
     [lat |-> 30, ans |-> OkAnswer([isArray |-> FALSE, list |-> <<>>])],
     [lat |-> 30, ans |-> [kind |-> "http", status |-> RateLimitStatus]]}

\* UTC, UTC-5 and UTC+5:30
QueryEnvs == {[apiKey |-> FALSE, tz |-> 0, lag |-> 0],
              [apiKey |-> FALSE, tz |-> -18000000, lag |-> 0],
              [apiKey |-> FALSE, tz |-> 19800000, lag |-> 0]}

QueryLimits == {Absent(0), Given(0), Given(-1), Given(1), Given(3), Given(2000)}

RecentQueries ==
    {[limit |-> l, include_offline |-> o] :
        l \in QueryLimits, o \in {Absent(FALSE), Given(TRUE), Given(FALSE)}}

TargetQueries ==
    {[target |-> Given(<<"A">>), limit |-> l, verified_only |-> v] :
        l \in QueryLimits, v \in {Absent(TRUE), Given(FALSE)}}
      \cup {[target |-> Given(<<" ", "c">>), limit |-> Absent(0),
             verified_only |-> Given(TRUE)]}

DetailQueries == {[phish_id |-> Given(1)], [phish_id |-> Given(23)]}

StatsQueries ==
    {[days |-> d, top_targets_limit |-> l] :
        d \in {Absent(0), Given(40)},
        l \in {Absent(0), Given(0), Given(-1), Given(1), Given(2), Given(60)}}
      \cup {[days |-> d, top_targets_limit |-> Given(2)] :
               d \in {Given(0), Given(-3), Given(1), Given(3)}}

DateQueries ==
    {[start_date |-> Given(DateGood), end_date |-> Given(DateGood), limit |-> l] :
        l \in QueryLimits}
      \cup {[start_date |-> Given(DateGood), end_date |-> Given(DateLater),
             limit |-> Absent(0)]}

InitQ ==
    /\ env \in QueryEnvs
    /\ now = StartTime
    /\ cache = <<>>
    /\ lastRequestTime = 0
    /\ calls = [i \in 1..MaxCalls |-> NoCall]
    /\ nCalls = 0
    /\ idled = FALSE
    /\ permits = <<>>

QueryGetRecentPhish(i) ==
    /\ CanArrive(i)
    /\ \E a \in RecentQueries :
          LET m == Arrive(Machine(i), now, "get_recent_phish", a)
          IN  Arrived(i, GetRecentPhishEnter(m, now))

QuerySearchPhishByTarget(i) ==
    /\ CanArrive(i)
    /\ \E a \in TargetQueries :
          LET m == Arrive(Machine(i), now, "search_phish_by_target", a)
          IN  Arrived(i, SearchPhishByTargetEnter(m, now, a.target))

QueryGetPhishDetails(i) ==
    /\ CanArrive(i)
    /\ \E a \in DetailQueries :
          LET m == Arrive(Machine(i), now, "get_phish_details", a)
          IN  Arrived(i, GetPhishDetailsEnter(m, now, a.phish_id))

QueryGetPhishStats(i) ==
    /\ CanArrive(i)
    /\ \E a \in StatsQueries :
          LET m == Arrive(Machine(i), now, "get_phish_stats", a)
          IN  Arrived(i, GetPhishStatsEnter(m, now))

QuerySearchPhishByDate(i) ==
    /\ CanArrive(i)
    /\ \E a \in DateQueries :
          LET m == Arrive(Machine(i), now, "search_phish_by_date", a)
          IN  Arrived(i, SearchPhishByDateEnter(m, now, a.start_date,
                                                a.end_date))

\* the bulk download ends
DownloadEnds(i) ==
    /\ calls[i].pc = "get"
    /\ \E e \in QueryEndings :
          /\ now' = now + e.lat
          /\ Commit(i, [DatabaseAnswered(Machine(i), now', e.ans)
                           EXCEPT !.c.getAnswer = e.ans.kind])
    /\ UNCHANGED <<env, nCalls, idled>>

NextQ ==
    \E i \in 1..MaxCalls :
        \/ QueryGetRecentPhish(i)
        \/ QuerySearchPhishByTarget(i)
        \/ QueryGetPhishDetails(i)
        \/ QueryGetPhishStats(i)
        \/ QuerySearchPhishByDate(i)
        \/ DownloadEnds(i)

QuerySpec == InitQ /\ [][NextQ]_vars

(* ---------------------- overlapping invocations ----------------------- *)
\* A third specification.  The handler is an async function that the
\* protocol layer starts for every request as it is read, without waiting
\* for the handlers of earlier requests: an invocation can arrive while
\* another is suspended at an await, and the synchronous blocks of the two
\* interleave.  Time is shared: a step that moves the clock may not pass the
\* time at which another invocation's timer is due.

OverlapUrlArgs == {Given(UrlLower), Given(UrlUpper)}

OverlapBatchArgs == {[urls |-> <<UrlLower, UrlUpper>>, delay |-> Absent(0)]}

\* a new invocation can arrive whatever the earlier ones are doing
CanOverlap(i) ==
    /\ i = nCalls + 1
    /\ i <= MaxCalls

\* no timer of another invocation is due before time x
NoTimerBefore(i, x) ==
    \A j \in (1..MaxCalls) \ {i} :
        calls[j].pc \in {"throttle", "pace"} => x <= calls[j].wake + env.lag

OverlapCheckUrl(i) ==
    /\ CanOverlap(i)
    /\ \E a \in OverlapUrlArgs :
          LET m == Arrive(Machine(i), now, "check_url", [url |-> a])
          IN  Arrived(i, Settle(CheckUrlEnter(m, now, a), now))

OverlapCheckMultipleUrls(i) ==
    /\ CanOverlap(i)
    /\ \E a \in OverlapBatchArgs :
          LET m == Arrive(Machine(i), now, "check_multiple_urls", a)
          IN  Arrived(i, CheckMultipleUrlsEnter(m, now, a.urls, a.delay))

OverlapGetRecentPhish(i) ==
    /\ CanOverlap(i)
    /\ \E a \in RecentArgs :
          LET m == Arrive(Machine(i), now, "get_recent_phish", a)
          IN  Arrived(i, GetRecentPhishEnter(m, now))

OverlapThrottleWakes(i) ==
    /\ calls[i].pc = "throttle"
    /\ NoTimerBefore(i, Max(now, calls[i].wake + env.lag))
    /\ ThrottleWakes(i)

OverlapPaceWakes(i) ==
    /\ calls[i].pc = "pace"
    /\ NoTimerBefore(i, Max(now, calls[i].wake + env.lag))
    /\ PaceWakes(i)

OverlapPostEnds(i) ==
    /\ PostEnds(i)
    /\ NoTimerBefore(i, now')

OverlapGetEnds(i) ==
    /\ GetEnds(i)
    /\ NoTimerBefore(i, now')

NextOverlap ==
    \E i \in 1..MaxCalls :
        \/ OverlapCheckUrl(i)
        \/ OverlapCheckMultipleUrls(i)
        \/ OverlapGetRecentPhish(i)
        \/ OverlapThrottleWakes(i)
        \/ OverlapPostEnds(i)
        \/ OverlapPaceWakes(i)
        \/ OverlapGetEnds(i)

OverlapSpec == Init /\ [][NextOverlap]_vars

(* ------------------------------ helpers ------------------------------- *)

CallIds == 1..MaxCalls

\* every checkUrl call invocation i has made: the finished batch items and
\* the call it is in (or, for check_url, the one call)
ChecksOf(i) ==
    LET c == calls[i]
    IN  {c.results[k] : k \in 1..Len(c.results)}
            \cup (IF c.cur.fin = "none" THEN {} ELSE {c.cur})

IsBatch(i) == calls[i].tool = "check_multiple_urls"

IsDatabaseCall(i) == calls[i].tool \in DatabaseTools

(* ------------------------------- claims ------------------------------- *)

\* C1: the times enforceRateLimit records for two consecutive permitted
\* requests differ by at least 60000/requests_per_minute ms (6000 without a
\* credential token, 600 with one), also after a long idle period.
C1_MinGapBetweenPermits ==
    /\ MinInterval(env) = (IF env.apiKey THEN 600 ELSE 6000)
    /\ \A k \in 1..(Len(permits) - 1) :
          permits[k + 1] - permits[k] >= MinInterval(env)
    /\ (permits # <<>> => lastRequestTime = permits[Len(permits)])

\* a throttled request was permitted exactly one interval after the one
\* before it, in a run where the throttle made a call wait
C1_Witness ==
    /\ \E k \in 1..(Len(permits) - 1) :
          permits[k + 1] - permits[k] = MinInterval(env)
    /\ \E i \in CallIds : calls[i].waits > 0 /\ calls[i].pc = "done"

\* C2, as amended: two check_url calls with the same URL string, the second
\* arriving before the first's result expires, where the first missed the
\* cache and its POST was answered with a success status and a non-empty
\* body, issue exactly one POST: the second is served from the cache, with
\* the stored result.
C2_OnePostWhenFirstSucceeds ==
    \A i \in 1..(MaxCalls - 1) :
        LET a == calls[i]
            b == calls[i + 1]
        IN  (/\ a.tool = "check_url" /\ b.tool = "check_url"
             /\ a.pc = "done" /\ b.pc # "idle"
             /\ a.args.url = b.args.url
             /\ a.cur.kind = "fetched" /\ Truthy(a.cur.payload.result)
             /\ b.began - a.ended <= CacheTimeout)
            => /\ a.posts = 1 /\ b.posts = 0
               /\ b.pc = "done" /\ b.cur.kind = "cached"
               /\ b.out.result = a.out.result

\* the second of two such calls has been served from the cache
C2_Witness ==
    /\ calls[1].tool = "check_url" /\ calls[2].tool = "check_url"
    /\ calls[1].args.url = calls[2].args.url
    /\ calls[1].cur.kind = "fetched" /\ calls[1].posts = 1
    /\ calls[2].cur.kind = "cached" /\ calls[2].posts = 0
    /\ calls[2].began = calls[1].ended

\* C2 as stated: two check_url calls in immediate succession with the same
\* URL string issue exactly one POST, whatever the first POST's answer was.
C2_OnePostWhateverTheAnswer ==
    \A i \in 1..(MaxCalls - 1) :
        LET a == calls[i]
            b == calls[i + 1]
        IN  (/\ a.tool = "check_url" /\ b.tool = "check_url"
             /\ a.pc = "done" /\ b.pc = "done"
             /\ a.args.url = b.args.url
             /\ a.posts = 1
             /\ b.began = a.ended)
            => a.posts + b.posts = 1 /\ b.cur.kind = "cached"

\* C3: a lookup made strictly after an entry's expiry behaves as absent: no
\* URL check result is served from the cache more than 300 s after it was
\* stored and no database snapshot more than 3600 s after it was stored (a
\* hit in between does not extend the expiry); a lookup that finds its entry
\* expired goes to the upstream.
C3_NothingServedAfterExpiry ==
    /\ CacheTimeout = 300 * 1000 /\ MaxDatabaseAge = 3600 * 1000
    /\ \A i \in CallIds :
          /\ calls[i].hitAge <= MaxDatabaseAge
          /\ (calls[i].sawExpired => calls[i].hitAge = -1 /\ calls[i].gets = 1)
          /\ \A r \in ChecksOf(i) :
                /\ r.hitAge <= CacheTimeout
                /\ (r.sawExpired => r.kind # "cached" /\ r.hitAge = -1)
                /\ (r.sawExpired /\ calls[i].pc \notin {"throttle"}
                        => r.posts = 1)
    /\ \A k \in DOMAIN cache :
          cache[k].t = cache[k].storedAt
                         + (IF k = DatabaseCacheKey THEN MaxDatabaseAge
                            ELSE CacheTimeout)

\* a batch found its URL in the cache, and found the same entry expired one
\* pacing delay later
C3_Witness ==
    \E i \in CallIds :
        /\ IsBatch(i)
        /\ Len(calls[i].results) = 2
        /\ calls[i].results[1].kind = "cached"
        /\ calls[i].results[1].hitAge > 0
        /\ calls[i].results[2].sawExpired
        /\ calls[i].results[2].posts = 1

\* C4, as amended: the cache key of a check_url call is "url_check:" followed
\* by the url argument with its leading and trailing white space removed, and
\* otherwise verbatim: a result stored for one url argument is returned as a
\* cache hit for another only when the two are equal after trimming.
C4_KeyIsTrimmedUrl ==
    /\ \A k \in DOMAIN cache :
          k # DatabaseCacheKey
              => k = <<"url_check:">> \o Trim(cache[k].storedFor)
    /\ \A i \in CallIds : \A r \in ChecksOf(i) :
          r.kind = "cached" => Trim(r.hitFrom) = Trim(UrlOrEmpty(r.arg))

\* a result stored for one URL was not used for a URL that differs from it in
\* letter case, and was used for one that differs from it in white space
C4_Witness ==
    /\ calls[1].tool = "check_url" /\ calls[2].tool = "check_multiple_urls"
    /\ calls[1].cur.kind = "fetched"
    /\ calls[1].args.url = Given(UrlUpper)
    /\ Len(calls[2].results) = 3
    /\ calls[2].results[2].kind = "fetched"
    /\ calls[2].results[3].kind = "cached"
    /\ calls[2].results[3].url # calls[2].results[3].hitFrom
    /\ UrlCacheKey(UrlUpper) \in DOMAIN cache

\* C4 as stated: two calls whose url arguments differ as strings never share
\* a cache entry.
C4_KeyIsVerbatimUrl ==
    \A i \in CallIds : \A r \in ChecksOf(i) :
        r.kind = "cached" => r.hitFrom = UrlOrEmpty(r.arg)

\* C5: a tool call that ends in InvalidArgument is rejected before any cache
\* read or write, throttle wait or outbound request: in the step that rejects
\* it the cache and the throttle timestamp do not change, and the call has
\* made no cache access, no wait and no request.
C5_RejectedBeforeAnyAccess ==
    [][\A i \in CallIds :
          (calls'[i].outcome = "McpError" /\ calls[i].outcome # "McpError")
              => /\ cache' = cache
                 /\ lastRequestTime' = lastRequestTime
                 /\ permits' = permits
                 /\ calls'[i].cacheOps = 0 /\ calls'[i].sets = 0
                 /\ calls'[i].waits = 0 /\ calls'[i].paces = 0
                 /\ calls'[i].posts = 0 /\ calls'[i].gets = 0
                 /\ calls'[i].ended = calls'[i].began
                 /\ \A j \in CallIds \ {i} : calls'[j] = calls[j]]_vars

\* search_phish_by_date with start after end has been rejected while the
\* cache held an expired snapshot, which is still there
C5_Witness ==
    /\ calls[2].tool = "search_phish_by_date"
    /\ calls[2].outcome = "McpError"
    /\ calls[2].args.start_date = Given(DateLater)
    /\ calls[2].args.end_date = Given(DateGood)
    /\ DatabaseCacheKey \in DOMAIN cache
    /\ Expired(cache[DatabaseCacheKey], now)

\* C6: the delay check_multiple_urls sleeps between items and reports as
\* delay_used lies in [500, 10000] for every value of the delay argument:
\* values below 500 become 500, values above 10000 become 10000, an omitted
\* delay becomes 1000.
C6_DelayWithinDocumentedRange ==
    \A i \in CallIds :
        (IsBatch(i) /\ calls[i].outcome # "McpError")
            => LET a == calls[i].args.delay
                   d == calls[i].delay
               IN  /\ d >= MinDelay /\ d <= MaxDelayDocumented
                   /\ (~a.has => d = DefaultDelay)
                   /\ (a.has /\ a.v < MinDelay => d = MinDelay)
                   /\ (a.has /\ a.v > MaxDelayDocumented
                          => d = MaxDelayDocumented)
                   /\ (a.has /\ a.v >= MinDelay /\ a.v <= MaxDelayDocumented
                          => d = a.v)
                   /\ (calls[i].pc = "done"
                          => calls[i].out.summary.delay_used = d)

\* C7: check_multiple_urls with n URLs (1 <= n <= 50) ends with exactly n
\* per-URL outcomes in the order of the input list; a URL that fails (invalid
\* URL, upstream error status, transport failure) is recorded as failed and
\* the later URLs are still processed; successful + failed = total = n.
C7_BatchRecordsEveryUrl ==
    \A i \in CallIds :
        IsBatch(i) =>
            LET c == calls[i]
                n == Len(c.args.urls)
            IN  /\ c.outcome \in {"none", "ok", "McpError"}
                /\ (c.outcome = "McpError" <=> (n = 0 \/ n > MaxUrls))
                /\ Len(c.results) = c.idx
                /\ \A k \in 1..Len(c.results) :
                      /\ c.results[k].url = c.args.urls[k]
                      /\ (c.results[k].success
                            <=> c.results[k].kind \in {"cached", "fetched"})
                /\ (c.outcome = "none" => c.idx < n)
                /\ (c.outcome = "ok" =>
                      /\ Len(c.results) = n
                      /\ c.out.batch_results = c.results
                      /\ c.out.summary.total = n
                      /\ c.out.summary.successful =
                            Cardinality({k \in 1..n : c.results[k].success})
                      /\ c.out.summary.successful + c.out.summary.failed = n)

\* a batch of three has ended: an invalid URL and an upstream failure, each
\* followed by the check of the next URL
C7_Witness ==
    \E i \in CallIds :
        /\ IsBatch(i)
        /\ calls[i].pc = "done"
        /\ Len(calls[i].results) = 3
        /\ calls[i].results[1].kind = "InvalidParams"
        /\ calls[i].results[2].kind = "axios"
        /\ calls[i].results[2].status = RateLimitStatus
        /\ calls[i].results[3].kind = "fetched"
        /\ calls[i].out.summary.failed = 2

\* C8: check_multiple_urls checks its URLs one after another: the check of a
\* URL starts no earlier than one pacing delay after the end of the check
\* before it; exactly one pacing delay is slept after every URL but the last
\* (n-1 in all), whether that URL was a cache hit, a miss or a failure, and
\* the throttle's waits come on top.
C8_BatchIsSequentialAndPaced ==
    \A i \in CallIds :
        IsBatch(i) =>
            LET c == calls[i]
                n == Len(c.args.urls)
            IN  /\ \A k \in 1..(Len(c.results) - 1) :
                      c.results[k + 1].startedAt
                          >= c.results[k].finishedAt + c.delay
                /\ \A k \in 1..Len(c.results) :
                      c.results[k].finishedAt >= c.results[k].startedAt
                /\ (c.pc = "pace" =>
                      /\ c.paces = c.idx
                      /\ c.wake = c.results[c.idx].finishedAt + c.delay)
                /\ (c.pc \in {"throttle", "post"} =>
                      /\ c.paces = c.idx
                      /\ (c.idx > 0 => c.cur.startedAt
                              >= c.results[c.idx].finishedAt + c.delay))
                /\ (c.outcome = "ok" => c.paces = n - 1)
                /\ c.waits <= c.posts + (IF c.pc = "throttle" THEN 1 ELSE 0)

\* a batch of three has ended after two pacing delays, one of them after an
\* invalid URL and one after a miss, and after a wait in the throttle
C8_Witness ==
    \E i \in CallIds :
        /\ IsBatch(i)
        /\ calls[i].pc = "done"
        /\ Len(calls[i].results) = 3
        /\ calls[i].paces = 2
        /\ calls[i].waits >= 1
        /\ calls[i].results[1].kind = "InvalidParams"
        /\ calls[i].results[2].kind = "fetched"
        /\ calls[i].results[3].kind = "cached"

LastDatabaseCallBefore(j) ==
    LET S == {i \in 1..(j - 1) : IsDatabaseCall(i) /\ calls[i].cacheOps > 0}
    IN  IF S = {} THEN 0 ELSE CHOOSE i \in S : \A k \in S : k <= i

\* C10: when the bulk download fails, the database-backed operation ends with
\* the error and returns no entries, nothing is stored under
\* "phishtank_database", and the next database-backed operation attempts the
\* download again.
C10_FailedDownloadStoresNothing ==
    \A i \in CallIds :
        (IsDatabaseCall(i) /\ calls[i].getAnswer \in {"http", "net"}) =>
            /\ calls[i].outcome = "isError"
            /\ calls[i].served = <<>>
            /\ calls[i].out = AxiosErrorResult(calls[i].out.status)
            /\ calls[i].sets = 0
            /\ (LastDatabaseCallBefore(MaxCalls + 1) = i
                   => DatabaseCacheKey \notin DOMAIN cache)
            /\ \A j \in CallIds :
                  (LastDatabaseCallBefore(j) = i /\ IsDatabaseCall(j)
                       /\ calls[j].cacheOps > 0)
                    => calls[j].gets = 1

\* a download has failed and the database-backed call after it has sent the
\* GET again
C10_Witness ==
    /\ IsDatabaseCall(1) /\ calls[1].outcome = "isError"
    /\ IsDatabaseCall(2) /\ calls[2].gets = 1 /\ calls[2].outcome = "ok"
    /\ calls[2].began - calls[1].ended <= 100

\* the entries of the snapshot that an operation's filter keeps
Matching(c) ==
    LET es == c.served.entries
    IN  IF c.tool = "get_recent_phish"
        THEN SelectSeq(es, LAMBDA e : IncludeOffline(c.args.include_offline)
                                         \/ e.online = "yes")
        ELSE IF c.tool = "search_phish_by_target"
        THEN SelectSeq(es, LAMBDA e :
                 /\ e.target # <<>>
                 /\ Includes(ToLowerCase(e.target), TargetOf(c.args.target))
                 /\ (VerifiedOnly(c.args.verified_only) => e.verified = "yes"))
        ELSE SelectSeq(es, LAMBDA e :
                 InDateRange(e.submission_time, ParseDate(c.args.start_date.v),
                     SetHoursEndOfDay(ParseDate(c.args.end_date.v), env.tz)))

\* the effective limits the contract allows for a limit argument: the
\* default when it is omitted, the maximum above the maximum, the value
\* itself in [1, max], and 1 or the default for 0 and negative values
ClaimedLimits(a, dflt, max) ==
    IF ~a.has THEN {dflt}
    ELSE IF a.v > max THEN {max}
    ELSE IF a.v >= 1 THEN {a.v}
    ELSE {1, dflt}

ClaimedLimitsOf(c) ==
    IF c.tool = "get_recent_phish" THEN ClaimedLimits(c.args.limit, 100, 1000)
    ELSE IF c.tool = "search_phish_by_target"
    THEN ClaimedLimits(c.args.limit, 50, 500)
    ELSE ClaimedLimits(c.args.limit, 100, 500)

LimitedTools ==
    {"get_recent_phish", "search_phish_by_target", "search_phish_by_date"}

\* C11: get_recent_phish, search_phish_by_target and search_phish_by_date
\* return, for every value of the limit argument (0, negative and above the
\* maximum included), the min(effective limit, number of matching entries)
\* most recently submitted matching entries in descending order of
\* submission time, with an effective limit in [1, max]; never more entries
\* than the effective limit.
C11_LimitClampedToRange ==
    \A i \in CallIds :
        LET c == calls[i]
        IN  (c.tool \in LimitedTools /\ c.outcome = "ok") =>
                \E L \in ClaimedLimitsOf(c) :
                    /\ L >= 1
                    /\ Len(c.out.entries) <= L
                    /\ c.out.entries = SubSeq(SortBySubmissionTime(Matching(c)),
                                              1, Min(L, Len(Matching(c))))

\* the phish_ids of the entries of the list s
IdsOf(s) == {s[k].phish_id : k \in 1..Len(s)}

\* the ids of the snapshot's entries submitted in the MsPerDay milliseconds
\* that start at time from
SubmittedInDayFrom(c, from) ==
    {c.served.entries[k].phish_id : k \in
        {j \in 1..Len(c.served.entries) :
            /\ c.served.entries[j].submission_time >= from
            /\ c.served.entries[j].submission_time <= from + (MsPerDay - 1)}}

\* C12: search_phish_by_date with start_date = end_date = D returns exactly
\* the entries submitted within the calendar day D, from 00:00:00.000 to
\* 23:59:59.999 inclusive with both bounds in the same time reference (the
\* day D of UTC, or the day D of the process's local time), in every time
\* zone of the process.
C12_SingleDayIsWholeDay ==
    \A i \in CallIds :
        LET c == calls[i]
        IN  (/\ c.tool = "search_phish_by_date" /\ c.outcome = "ok"
             /\ c.args.start_date = c.args.end_date
             /\ ~c.args.limit.has) =>
                LET utcMidnight == ParseDate(c.args.start_date.v).ms
                IN  \/ IdsOf(c.out.entries) = SubmittedInDayFrom(c, utcMidnight)
                    \/ IdsOf(c.out.entries)
                          = SubmittedInDayFrom(c, utcMidnight - env.tz)

\* the targets of the snapshot's entries that lie in the window of the
\* get_phish_stats call c, one element per entry that carries a target
InWindowWithTarget(c) ==
    {k \in 1..Len(c.served.entries) :
        /\ InStatsWindow(c.served.entries[k].submission_time, c.ended,
                         c.out.analysis_period_days)
        /\ c.served.entries[k].target # <<>>}

CountOfTarget(c, target) ==
    Cardinality({k \in InWindowWithTarget(c) :
                    c.served.entries[k].target = target})

DistinctTargets(c) ==
    {c.served.entries[k].target : k \in InWindowWithTarget(c)}

\* C13: get_phish_stats lists in top_targets the targets of the in-window
\* entries by descending count: every listed count is the number of
\* in-window entries with that target, entries without a target count for
\* none, the counts do not increase along the list, no omitted target has
\* a larger count than a listed one, and the list has min(top_targets_limit,
\* number of distinct targets) elements, top_targets_limit being 10 when
\* omitted and at most 50 (for 0 and negative values: 1 or the default).
C13_TopTargetsRanked ==
    \A i \in CallIds :
        LET c == calls[i]
        IN  (c.tool = "get_phish_stats" /\ c.outcome = "ok") =>
                LET top == c.out.top_targets
                    n == Len(top)
                IN  /\ \A k \in 1..n :
                          /\ top[k].target # <<>>
                          /\ top[k].count = CountOfTarget(c, top[k].target)
                          /\ top[k].count >= 1
                    /\ \A k, l \in 1..n : k < l =>
                          /\ top[k].count >= top[l].count
                          /\ top[k].target # top[l].target
                    /\ \A t \in DistinctTargets(c) :
                          (\A k \in 1..n : top[k].target # t) =>
                              \A k \in 1..n : top[k].count >= CountOfTarget(c, t)
                    /\ \E L \in ClaimedLimits(c.args.top_targets_limit, 10, 50) :
                          n = Min(L, Cardinality(DistinctTargets(c)))

\* every checkUrl call made so far, by any invocation
AllChecks == UNION {ChecksOf(i) : i \in CallIds}

\* the response of a checkUrl call that returned
PayloadOf(r) == IF "payload" \in DOMAIN r THEN r.payload ELSE r.data

KeyOf(r) == UrlCacheKey(Trim(UrlOrEmpty(r.arg)))

\* the hit s was served the entry that the fetch r stored
PopulatedBy(s, r) ==
    /\ r.kind = "fetched" /\ s.kind = "cached"
    /\ KeyOf(r) = KeyOf(s)
    /\ s.startedAt - s.hitAge = r.finishedAt

SamePayload(s, r) ==
    /\ PayloadOf(s).result = PayloadOf(r).result
    /\ PayloadOf(s).summary = PayloadOf(r).summary

\* C14 (as amended): a check_url response carries the marker cached: true
\* exactly when it was served from the cache without a network call; a
\* response fetched from the upstream carries no cached marker at all; the
\* cached response and the fetched response that populated the cache hold
\* equal result payloads and equal summaries.
C14_CachedMarkerOnlyOnHits ==
    /\ \A r \in AllChecks :
          r.kind \in {"cached", "fetched"} =>
              /\ ("cached" \in DOMAIN PayloadOf(r)) <=> (r.posts = 0)
              /\ ("cached" \in DOMAIN PayloadOf(r)) => PayloadOf(r).cached
              /\ (r.kind = "fetched") <=> (r.posts = 1)
    /\ \A r, s \in AllChecks : PopulatedBy(s, r) => SamePayload(s, r)

\* a check_url fetched a verified phish and stored it, and the next
\* check_url for the same URL was served from the cache
C14_Witness ==
    /\ calls[1].tool = "check_url" /\ calls[1].cur.kind = "fetched"
    /\ calls[1].cur.payload.result = VerifiedPhish
    /\ calls[2].tool = "check_url" /\ calls[2].pc = "done"
    /\ PopulatedBy(calls[2].cur, calls[1].cur)
    /\ calls[2].cur.payload.cached

\* C14 (as stated): the response carries cached: true exactly when it was
\* served from the cache and cached: false when it was fetched from the
\* upstream, with equal payloads and summaries for the same URL.
C14_CachedMarkerTrueOrFalse ==
    /\ \A r \in AllChecks :
          r.kind \in {"cached", "fetched"} =>
              /\ "cached" \in DOMAIN PayloadOf(r)
              /\ PayloadOf(r).cached <=> (r.posts = 0)
    /\ \A r, s \in AllChecks : PopulatedBy(s, r) => SamePayload(s, r)

\* C15: no query modifies the cached database snapshot: whatever
\* get_recent_phish (with or without include_offline), search_phish_by_target,
\* get_phish_details, get_phish_stats and search_phish_by_date calls it has
\* served, the snapshot under "phishtank_database" holds the entries it was
\* stored with, in the same order.
C15_SnapshotNeverModified ==
    DatabaseCacheKey \in DOMAIN cache =>
        cache[DatabaseCacheKey].v.entries = cache[DatabaseCacheKey].stored.entries

\* C16: a database-backed operation (one that is not rejected for its
\* arguments) issues the bulk GET exactly when "phishtank_database" is absent
\* or expired at the time of the call, and at most once per call; a successful
\* download stores the snapshot under that key with an expiry of 3600
\* seconds, and every database-backed operation started within the hour
\* after it issues no outbound request.
C16_DownloadExactlyOnMiss ==
    [][/\ \A i \in CallIds :
             (/\ calls[i].pc = "idle"
              /\ calls'[i].tool \in DatabaseTools
              /\ calls'[i].outcome # "McpError")
                 => ((calls'[i].gets = 1)
                        <=> (\/ DatabaseCacheKey \notin DOMAIN cache
                             \/ cache[DatabaseCacheKey].t < now))
       /\ \A i \in CallIds :
             calls'[i].tool \in DatabaseTools =>
                 /\ calls'[i].gets <= 1
                 /\ calls'[i].posts = 0
                 /\ (calls[i].pc # "idle" => calls'[i].gets = calls[i].gets)
       /\ \A i \in CallIds :
             (calls[i].pc = "get" /\ calls'[i].getAnswer = "ok")
                 => /\ DatabaseCacheKey \in DOMAIN cache'
                    /\ cache'[DatabaseCacheKey].storedAt = now'
                    /\ cache'[DatabaseCacheKey].t = now' + 3600 * 1000
       /\ \A i, j \in CallIds :
             (/\ calls[i].getAnswer = "ok"
              /\ calls[j].pc = "idle"
              /\ calls'[j].tool \in DatabaseTools
              /\ now - calls[i].ended <= 3600 * 1000)
                 => calls'[j].gets = 0
      ]_vars

\* a download succeeded, and a database-backed operation that started exactly
\* 3600 seconds after it was served from the cache without a request
C16_Witness ==
    /\ IsDatabaseCall(1) /\ calls[1].getAnswer = "ok"
    /\ IsDatabaseCall(2) /\ calls[2].outcome = "ok"
    /\ calls[2].began - calls[1].ended = 3600 * 1000
    /\ calls[2].gets = 0 /\ calls[2].hitAge = 3600 * 1000

\* C17: the throttle's timestamp is written only by a checkUrl call (the
\* check_url tool, or check_multiple_urls for one of its URLs) that misses
\* the cache, in the step that issues its POST; a cache hit and every
\* database-backed operation, the bulk download included, leave the timestamp
\* unchanged and wait for no throttle interval, so a later request is made to
\* wait only when the last POST was less than the minimum interval ago.
C17_OnlyMissesTouchThrottle ==
    [][/\ (lastRequestTime' # lastRequestTime) =>
             /\ lastRequestTime' = now'
             /\ permits' = Append(permits, now')
             /\ \E i \in CallIds :
                   /\ calls'[i].tool \in {"check_url", "check_multiple_urls"}
                   /\ calls'[i].pc = "post"
                   /\ calls'[i].posts = calls[i].posts + 1
                   /\ calls'[i].cur.kind = "none"
                   /\ calls'[i].cur.hitAge = -1
       /\ \A i \in CallIds :
             (calls'[i] # calls[i] /\ calls'[i].tool \in DatabaseTools) =>
                 /\ lastRequestTime' = lastRequestTime
                 /\ permits' = permits
                 /\ calls'[i].waits = 0
                 /\ calls'[i].pc \in {"get", "done"}
       /\ \A i \in CallIds :
             (calls'[i].cur # calls[i].cur /\ calls'[i].cur.kind = "cached") =>
                 /\ lastRequestTime' = lastRequestTime
                 /\ permits' = permits
                 /\ calls'[i].waits = calls[i].waits
                 /\ calls'[i].cur.posts = 0
       /\ \A i \in CallIds :
             (calls'[i].waits = calls[i].waits + 1) =>
                 /\ permits # <<>>
                 /\ now' - permits[Len(permits)] < MinInterval(env)
      ]_vars

\* a database-backed operation has downloaded the snapshot, and the check_url
\* that arrived as it ended missed the cache and was sent without a wait
C17_Witness ==
    /\ IsDatabaseCall(1) /\ calls[1].getAnswer = "ok"
    /\ calls[2].tool = "check_url" /\ calls[2].began = calls[1].ended
    /\ calls[2].posts = 1 /\ calls[2].waits = 0
    /\ permits = <<calls[2].began>>
    /\ lastRequestTime = calls[2].began

\* C18: the cache and the throttle's timestamp have a single writer at any
\* instant, also when invocations arrive while an earlier one is suspended:
\* no other invocation writes the timestamp between an invocation's read of
\* it (when it starts its throttle wait) and its own write, and two requests
\* are never permitted less than 60000/requests_per_minute ms apart.
C18_SingleWriterKeepsGap ==
    /\ \A i \in CallIds :
          calls[i].pc = "throttle" =>
              lastRequestTime = calls[i].wake - MinInterval(env)
    /\ \A k \in 1..(Len(permits) - 1) :
          permits[k + 1] - permits[k] >= MinInterval(env)
====
